---- MODULE Spec2Model ----
(***************************************************************************)
(* Client connection manager of the AgentDB dashboard:                     *)
(*   useAgentDBWebSocket  (src/src/hooks/useAgentDBWebSocket.ts)            *)
(*   useAgentDBPolling    (src/unnamed/part_008)                            *)
(*   Dashboard            (src/src/components/DashboardNew.tsx)             *)
(* One Dashboard instance owns one instance of each hook.  Every action is *)
(* one JavaScript task: an effect run, a DOM/WebSocket event handler, a    *)
(* timer callback or the completion of the awaited fetch.                  *)
(*                                                                         *)
(* A socket is a slot of ws.sock holding its readyState.  "ABORTING" is     *)
(* readyState CLOSING reached by close() on a CONNECTING socket: the       *)
(* browser then fires an error event before the close event.  A socket in  *)
(* CONNECTING or OPEN that gets a close event was closed by the network or *)
(* the server (an unintentional close); a socket in CLOSING or ABORTING    *)
(* was closed by the hook itself.  The error event and the close event of  *)
(* one socket are dispatched in the same task, so they are one step.       *)
(*                                                                         *)
(* reconnect() and refresh() are part of what the hooks return; the        *)
(* Dashboard itself never calls them.  They are called here only while the *)
(* component is mounted.  ws.urlRejected says whether new WebSocket(url)   *)
(* throws for the url the Dashboard derives from its serverUrl prop (a      *)
(* SyntaxError for a url that is not ws: or wss:, a SecurityError for ws:   *)
(* on an https page); it is fixed for the life of the instance.            *)
(***************************************************************************)
EXTENDS Integers, FiniteSets, Sequences

\* ------------------------------------------------------------- constants
MaxReconnectAttempts == 10
DefaultMode == "websocket"

ErrMax == "Max reconnection attempts reached"
ErrConn == "WebSocket connection error"
ErrEstablish == "Failed to establish WebSocket connection"
NoError == "null"

\* ---------------------------------------------------------------- bounds
\* manual reconnect() calls the environment may make
MaxReconnects == 1

NumSock == MaxReconnects + 2
SockIds == 1..NumSock
TimerIds == 1..NumSock
Null == 0

VARIABLES
  phase,           \* "init" | "mounted" | "unmounted": the life of the Dashboard instance
  strict,          \* rendered under React.StrictMode: effects run, are cleaned up, run again
  mode,            \* Dashboard: useState<ConnectionMode>
  ws,              \* the refs and state of useAgentDBWebSocket
  poll,            \* the refs and state of useAgentDBPolling
  reconnectsUsed,  \* history: manual reconnect() calls made so far
  failStreak       \* history: unintentional closes handled since the counter was last set to 0

vars == <<phase, strict, mode, ws, poll, reconnectsUsed, failStreak>>

\* The server process (src/server/index.ts) and its store
\* (src/unnamed/part_001, server/agentdb-service.ts)
VARIABLES
  db,              \* AgentDBService.db: the metrics table and its AUTOINCREMENT sequence
  ret,             \* history: the last call made on the store and what it returned or threw
  clients,         \* index.ts: const clients = new Set<WebSocket>()
  conn,            \* the server-side WebSocket objects: readyState and events not yet emitted
  sent,            \* history: the messages the server passed to send() per connection
  cast             \* history: the last broadcastUpdate() run

svars == <<db, ret, clients, conn, sent, cast>>
allvars == <<vars, svars>>

Live == {"CONNECTING", "OPEN"}
ByHook == {"CLOSING", "ABORTING"}

\* A React state setter is a no-op once the component is unmounted.
SetState(cur, new) == IF phase = "unmounted" THEN cur ELSE new

FreeSock(sk) == CHOOSE i \in SockIds : sk[i] = "CLOSED" /\ \A j \in SockIds : sk[j] = "CLOSED" => i <= j
FreeTimer(ts) == CHOOSE i \in TimerIds : i \notin ts /\ \A j \in TimerIds \ ts : i <= j

\* ------------------------------------------------------- AgentDBService
\* Timestamps are ISO-8601 strings of one format, which SQLite compares as
\* text in the order of the instants they name: a timestamp is the number of
\* its minute.  A category is a string, compared as text: a non-empty category
\* is the number of its place in that order, EmptyCat is '' and NoCat is a
\* missing (undefined) category.  The metadata column is never read back and
\* is left out.
NumCategories == 4
Categories == 1..NumCategories
EmptyCat == 0
NoCat == -1
SqlNull == -1
Undefined == -2          \* a value better-sqlite3 cannot bind to a NOT NULL column
MetricTypes == {"line", "bar", "pie"}

\* bounds of the store's environment
MaxRows == 3             \* rows inserted over a run (the AUTOINCREMENT sequence)
MaxBatch == 2            \* length of a batch handed to insertMetricsBatch
MaxTime == 1             \* timestamps of inserted points are 0..MaxTime
MaxLimit == 2            \* limit handed to getLineChartData

\* SQLite promises no order among rows of equal timestamp; it returns them in
\* rowid order, ascending or descending as the query plan scans the table or
\* the index. The plan is fixed when the database is opened.
Plans == {"rowid asc", "rowid desc"}
DbInit(plan) == [rows |-> {}, seq |-> 0, plan |-> plan]
RetInit == [op |-> "none", arg |-> 0, value |-> 0, threw |-> FALSE]

\* stmt.run of the INSERT statement throws when a NOT NULL column gets no value
Bindable(metric) == metric.timestamp # Undefined /\ metric.value # Undefined

\* the row an INSERT of metric stores under id: `category || null' stores ''
\* as NULL
Row(id, metric) ==
  [id |-> id,
   timestamp |-> metric.timestamp,
   metricType |-> metric.metricType,
   category |-> IF metric.category \in {NoCat, EmptyCat} THEN SqlNull ELSE metric.category,
   value |-> metric.value]

\* mutant: the INSERT replaces the stored rows of the same timestamp, type and
\* category (an upsert)
InsertRows_Upsert(d, items, n) ==
  LET new == {Row(d.seq + i, items[i]) : i \in 1..n}
      same(r, q) == /\ r.timestamp = q.timestamp
                    /\ r.metricType = q.metricType
                    /\ r.category = q.category
      kept == {r \in d.rows \cup new : ~\E q \in new : same(r, q) /\ q.id > r.id}
  IN [d EXCEPT !.rows = kept, !.seq = d.seq + n]

\* the first n INSERTs of items, each under the next id of the sequence
InsertRows(d, items, n) ==
  [d EXCEPT !.rows = d.rows \cup {Row(d.seq + i, items[i]) : i \in 1..n},
            !.seq = d.seq + n]

\* insertMetric: the new table and lastInsertRowid, or the exception
InsertMetric(d, metric) ==
  IF Bindable(metric)
  THEN [db |-> InsertRows(d, <<metric>>, 1), value |-> d.seq + 1, threw |-> FALSE]
  ELSE [db |-> d, value |-> 0, threw |-> TRUE]

\* the for loop of insertMany: it inserts the items in order and ends at the
\* first item insert.run throws on; the table when the loop ends, and whether
\* it ended by an exception
InsertLoop(d, items) ==
  LET bad == {i \in 1..Len(items) : ~Bindable(items[i])}
      n == IF bad = {} THEN Len(items)
           ELSE (CHOOSE i \in bad : \A j \in bad : i <= j) - 1
  IN [db |-> InsertRows(d, items, n), threw |-> bad # {}]

\* mutant: no ROLLBACK, the rows inserted before the exception stay
Transaction_NoRollback(d, items) == InsertLoop(d, items)

\* db.transaction(fn)(items): BEGIN, fn, then COMMIT, or ROLLBACK and rethrow
Transaction(d, items) ==
  LET r == InsertLoop(d, items)
  IN IF r.threw THEN [db |-> d, threw |-> TRUE] ELSE r

InsertMetricsBatch(d, metrics) ==
  LET r == Transaction(d, metrics)
  IN [db |-> r.db, value |-> IF r.threw THEN 0 ELSE Len(metrics), threw |-> r.threw]

RowsOfType(d, type) == {r \in d.rows : r.metricType = type}

\* LIMIT ?: a negative limit is no limit
LimitCount(n, limit) == IF limit < 0 \/ limit > n THEN n ELSE limit

\* r comes before q in SELECT ... ORDER BY timestamp DESC
ComesBefore(d, r, q) ==
  \/ r.timestamp > q.timestamp
  \/ /\ r.timestamp = q.timestamp
     /\ IF d.plan = "rowid asc" THEN r.id < q.id ELSE r.id > q.id

\* mutant: the rows are returned as the query gave them, newest first
GetLineChartData_NoReverse(d, limit) ==
  LET S == RowsOfType(d, "line")
      k == LimitCount(Cardinality(S), limit)
  IN [i \in 1..k |->
        LET r == CHOOSE x \in S : Cardinality({q \in S : ComesBefore(d, q, x)}) = i - 1
        IN [timestamp |-> r.timestamp, value |-> r.value]]

\* getLineChartData(limit): the first k rows of the query, reversed
GetLineChartData(d, limit) ==
  LET S == RowsOfType(d, "line")
      k == LimitCount(Cardinality(S), limit)
  IN [i \in 1..k |->
        LET r == CHOOSE x \in S : Cardinality({q \in S : ComesBefore(d, q, x)}) = k - i
        IN [timestamp |-> r.timestamp, value |-> r.value]]

RECURSIVE SumValues(_)
SumValues(S) ==
  IF S = {} THEN 0
  ELSE LET r == CHOOSE x \in S : TRUE IN r.value + SumValues(S \ {r})

\* the entries E, one per category, in increasing category order
SortByCategory(E) ==
  [i \in 1..Cardinality(E) |->
     CHOOSE e \in E : Cardinality({x \in E : x.category <= e.category}) = i]

\* mutant: each category carries the value of its latest row, not the sum
Aggregate_LatestValue(d, type) ==
  LET S == {r \in d.rows : r.metricType = type /\ r.category # SqlNull}
  IN SortByCategory({[category |-> r.category, count |-> r.value] :
                       r \in {x \in S : \A q \in S : q.category = x.category => q.id <= x.id}})

\* SELECT category, SUM(value) ... WHERE metricType = type AND category IS NOT
\* NULL GROUP BY category ORDER BY category
Aggregate(d, type) ==
  LET S == {r \in d.rows : r.metricType = type /\ r.category # SqlNull}
  IN SortByCategory({[category |-> c, count |-> SumValues({r \in S : r.category = c})] :
                       c \in {r.category : r \in S}})

GetBarChartData(d) == Aggregate(d, "bar")
GetPieChartData(d) == Aggregate(d, "pie")

\* SELECT COUNT(*) FROM metrics
GetTotalEvents(d) == Cardinality(d.rows)

\* getDashboardData() at time t
GetDashboardData(d, t) ==
  [lineChartData |-> GetLineChartData(d, 10),
   barChartData |-> GetBarChartData(d),
   pieChartData |-> GetPieChartData(d),
   totalEvents |-> GetTotalEvents(d),
   lastUpdated |-> t]

\* getStats().totalMetrics
GetStatsTotal(d) == Cardinality(d.rows)

\* cleanupOldData(hoursToKeep) at time t (in minutes): DELETE ... WHERE
\* timestamp < cutoff
CutoffTime(t, hoursToKeep) == t - hoursToKeep * 60

\* mutant: the rows at the cutoff are deleted too
CleanupOldData_Inclusive(d, t, hoursToKeep) ==
  LET old == {r \in d.rows : r.timestamp <= CutoffTime(t, hoursToKeep)}
  IN [db |-> [d EXCEPT !.rows = @ \ old], value |-> Cardinality(old), threw |-> FALSE]

CleanupOldData(d, t, hoursToKeep) ==
  LET old == {r \in d.rows : r.timestamp < CutoffTime(t, hoursToKeep)}
  IN [db |-> [d EXCEPT !.rows = @ \ old], value |-> Cardinality(old), threw |-> FALSE]

\* -------------------------------------------------------- DataGenerator
\* Math.floor(Math.random() * n) + lo.  Math.random is drawn once per call of
\* the generator and is either 0 or just below 1: every point of one batch
\* gets the low end or the high end of its range.
Draws == {"lo", "hi"}
SeedSteps == 2           \* bound: steps of the seeding loop, 60 in the source
Random(draw, n, lo) == IF draw = "lo" THEN lo ELSE lo + n - 1

Metric(t, type, category, v) ==
  [timestamp |-> t, metricType |-> type, category |-> category, value |-> v]

\* one point per category, in the order of this.categories
PerCategory(t, type, v) == [c \in Categories |-> Metric(t, type, c, v)]

\* the metrics seedHistoricalData(hours) builds at time t: a line point every
\* `hours' minutes from SeedSteps steps back up to t (60 steps, 61 points, in
\* the source), then a bar and a pie point per category
SeedHistoricalData(t, hours, draw) ==
  [k \in 1..(SeedSteps + 1) |->
     Metric(t - (SeedSteps + 1 - k) * hours, "line", NoCat, Random(draw, 100, 20))]
    \o PerCategory(t, "bar", Random(draw, 500, 100))
    \o PerCategory(t, "pie", Random(draw, 300, 50))

\* the metrics generateRealtimeData() builds at time t
GenerateRealtimeData(t, draw) ==
  <<Metric(t, "line", NoCat, Random(draw, 100, 20))>>
    \o PerCategory(t, "bar", Random(draw, 50, -25))
    \o PerCategory(t, "pie", Random(draw, 30, -15))

\* ----------------------------------------------------------------- server
MaxConns == 2            \* connections the WebSocket server is offered
MaxWrites == 1           \* generator ticks, seed requests and cleanup requests
ConnIds == 1..MaxConns
\* Date.now(), in minutes
Clock == 60..(60 + MaxTime)
\* Date.now() of the server after k writes: every generator tick, seed
\* request and cleanup request falls into a minute of its own
ServerNow(k) == 60 + k

ConnInit == [c \in ConnIds |-> [readyState |-> "NEW", handled |-> FALSE]]
SentInit == [c \in ConnIds |-> <<>>]
CastInit ==
  [process |-> "starting", ticks |-> 0, seeds |-> 0, cleanups |-> 0, faults |-> 0,
   snapshots |-> 0, sentTo |-> {}]
Return(op, arg, value, threw) == [op |-> op, arg |-> arg, value |-> value, threw |-> threw]

\* the server process is not running (the client is checked on its own)
ServerOff ==
  /\ db = DbInit("rowid asc")
  /\ ret = RetInit
  /\ clients = {}
  /\ conn = ConnInit
  /\ sent = SentInit
  /\ cast = CastInit

\* ------------------------------------------------- useAgentDBWebSocket
\* useRef/useState initial values
WsInit ==
  [ sock |-> [i \in SockIds |-> "CLOSED"],
    wsRef |-> Null,
    timers |-> {},
    reconnectTimeoutRef |-> Null,
    mountedRef |-> TRUE,
    reconnectAttemptRef |-> 0,
    intentionalCloseRef |-> FALSE,
    urlRejected |-> FALSE,
    isConnected |-> FALSE,
    error |-> NoError,
    data |-> "null" ]

\* WebSocket.close(): starts the closing handshake of a socket that is
\* connecting or open, and does nothing to any other.
SocketClose(sk, s) ==
  IF sk[s] = "OPEN" THEN [sk EXCEPT ![s] = "CLOSING"]
  ELSE IF sk[s] = "CONNECTING" THEN [sk EXCEPT ![s] = "ABORTING"]
  ELSE sk

\* connect(): new WebSocket(url), handlers attached, wsRef.current = ws; the
\* catch block when the constructor throws
Connect(w) ==
  IF ~w.mountedRef THEN w
  ELSE IF w.urlRejected THEN [w EXCEPT !.error = SetState(@, ErrEstablish)]
  ELSE LET s == FreeSock(w.sock)
       IN [w EXCEPT !.sock[s] = "CONNECTING", !.wsRef = s]

\* ws.onopen
OnOpen(w) ==
  [w EXCEPT !.isConnected = SetState(@, TRUE),
            !.error = SetState(@, NoError),
            !.reconnectAttemptRef = 0]

\* ws.onmessage
OnMessage(w) == [w EXCEPT !.data = SetState(@, "push")]

\* ws.onerror
OnError(w) == [w EXCEPT !.error = SetState(@, ErrConn)]

\* the reconnection branch giving up as soon as the counter reaches the maximum
OnCloseRetry_FailAtMax(w) ==
  IF w.mountedRef /\ w.reconnectAttemptRef < MaxReconnectAttempts - 1
  THEN LET t == FreeTimer(w.timers)
       IN [w EXCEPT !.reconnectAttemptRef = @ + 1,
                    !.timers = @ \cup {t},
                    !.reconnectTimeoutRef = t]
  ELSE IF w.reconnectAttemptRef >= MaxReconnectAttempts - 1
  THEN [w EXCEPT !.reconnectAttemptRef = MaxReconnectAttempts,
                 !.error = SetState(@, ErrMax)]
  ELSE w

\* the reconnection branch of ws.onclose
OnCloseRetry(w) ==
  IF w.mountedRef /\ w.reconnectAttemptRef < MaxReconnectAttempts
  THEN LET t == FreeTimer(w.timers)
       IN [w EXCEPT !.reconnectAttemptRef = @ + 1,
                    !.timers = @ \cup {t},
                    !.reconnectTimeoutRef = t]
  ELSE IF w.reconnectAttemptRef >= MaxReconnectAttempts
  THEN [w EXCEPT !.error = SetState(@, ErrMax)]
  ELSE w

\* ws.onclose
OnClose(w) ==
  LET w1 == [w EXCEPT !.isConnected = SetState(@, FALSE), !.wsRef = Null]
  IN IF w1.intentionalCloseRef
     THEN [w1 EXCEPT !.intentionalCloseRef = FALSE]
     ELSE OnCloseRetry(w1)

\* the mount effect: mountedRef.current = true; connect()
WsEffect(w) == Connect([w EXCEPT !.mountedRef = TRUE])

\* the cleanup of the mount effect
WsCleanup(w) ==
  LET w1 == [w EXCEPT !.mountedRef = FALSE,
                      !.timers = IF w.reconnectTimeoutRef # Null
                                 THEN @ \ {w.reconnectTimeoutRef} ELSE @]
  IN IF w1.wsRef # Null
     THEN [w1 EXCEPT !.intentionalCloseRef = TRUE,
                     !.sock = SocketClose(@, w1.wsRef),
                     !.wsRef = Null]
     ELSE w1

\* reconnect()
Reconnect(w) ==
  LET w1 == IF w.wsRef # Null
            THEN [w EXCEPT !.sock = SocketClose(@, w.wsRef)]
            ELSE w
  IN Connect([w1 EXCEPT !.reconnectAttemptRef = 0])

\* --------------------------------------------------- useAgentDBPolling
PollInit ==
  [ intervals |-> 0,
    intervalRef |-> FALSE,
    mountedRef |-> TRUE,
    fetchingRef |-> FALSE,
    inFlight |-> 0,
    loading |-> TRUE,
    error |-> FALSE,
    data |-> "null" ]

\* fetchData without the in-flight guard
FetchData_NoInFlightGuard(p, enabled) ==
  IF ~p.mountedRef \/ ~enabled THEN p
  ELSE [p EXCEPT !.fetchingRef = TRUE, !.inFlight = @ + 1]

\* fetchData up to its await: the guard, then fetch(url) is issued
FetchData(p, enabled) ==
  IF ~p.mountedRef \/ p.fetchingRef \/ ~enabled THEN p
  ELSE [p EXCEPT !.fetchingRef = TRUE, !.inFlight = @ + 1]

\* mutant: a failed fetch leaves the in-flight guard set
FetchSettled_KeepGuard(p, ok) ==
  LET p0 == [p EXCEPT !.inFlight = @ - 1]
  IN IF ~p0.mountedRef THEN p0
     ELSE [p0 EXCEPT !.data = IF ok THEN SetState(@, "poll") ELSE @,
                     !.error = SetState(@, ~ok),
                     !.loading = SetState(@, FALSE),
                     !.fetchingRef = ~ok]

\* fetchData after its await: the response (ok) or the failure is handled
FetchSettled(p, ok) ==
  LET p0 == [p EXCEPT !.inFlight = @ - 1]
  IN IF ~p0.mountedRef THEN p0
     ELSE [p0 EXCEPT !.data = IF ok THEN SetState(@, "poll") ELSE @,
                     !.error = SetState(@, ~ok),
                     !.loading = SetState(@, FALSE),
                     !.fetchingRef = FALSE]

\* the initial-fetch effect
InitialFetchEffect(p, enabled) == IF enabled THEN FetchData(p, enabled) ELSE p

\* the cleanup the interval effect returns when it has set an interval
IntervalCleanup(p) ==
  IF p.intervalRef THEN [p EXCEPT !.intervals = @ - 1, !.intervalRef = FALSE] ELSE p

\* the interval effect
IntervalEffect(p, enabled) ==
  IF ~enabled THEN IntervalCleanup(p)
  ELSE [p EXCEPT !.intervals = @ + 1, !.intervalRef = TRUE]

\* the cleanup of the unmount effect
UnmountCleanup(p) == [p EXCEPT !.mountedRef = FALSE]

\* both effects of the hook, run for a render whose `enabled` or fetchData
\* changed: React first runs the cleanup of the previous run
PollEffects(p, wasEnabled, enabled) ==
  LET p1 == IF wasEnabled THEN IntervalCleanup(p) ELSE p
  IN IntervalEffect(InitialFetchEffect(p1, enabled), enabled)

\* refresh()
Refresh(p, enabled) == FetchData([p EXCEPT !.loading = SetState(@, TRUE)], enabled)

\* ------------------------------------------------------------ Dashboard
Enabled(m) == m = "polling"

\* mutant: the snapshot of the push hook is shown whenever it has one
ActiveData_PreferPush(m, w, p) == IF w.data # "null" THEN w.data ELSE p.data

\* activeData: the snapshot the Dashboard renders
ActiveData(m, w, p) == IF m = "websocket" THEN w.data ELSE p.data

Init ==
  /\ phase = "init"
  /\ strict \in BOOLEAN
  /\ mode = DefaultMode
  /\ \E rejected \in BOOLEAN : ws = [WsInit EXCEPT !.urlRejected = rejected]
  /\ poll = PollInit
  /\ reconnectsUsed = 0
  /\ failStreak = 0
  /\ ServerOff

\* first commit: every effect runs; under StrictMode every cleanup runs and
\* every effect runs once more on the same refs
Mount ==
  /\ phase = "init"
  /\ phase' = "mounted"
  /\ LET w1 == WsEffect(ws)
         p1 == IntervalEffect(InitialFetchEffect(poll, Enabled(mode)), Enabled(mode))
     IN IF strict
        THEN /\ ws' = WsEffect(WsCleanup(w1))
             /\ poll' = PollEffects(UnmountCleanup(p1), Enabled(mode), Enabled(mode))
        ELSE /\ ws' = w1
             /\ poll' = p1
  /\ UNCHANGED <<strict, mode, reconnectsUsed, failStreak>>
  /\ UNCHANGED svars

\* unmount: every cleanup runs
Unmount ==
  /\ phase = "mounted"
  /\ phase' = "unmounted"
  /\ ws' = WsCleanup(ws)
  /\ poll' = UnmountCleanup(IF Enabled(mode) THEN IntervalCleanup(poll) ELSE poll)
  /\ UNCHANGED <<strict, mode, reconnectsUsed, failStreak>>
  /\ UNCHANGED svars

\* handleModeChange(newMode), the render it causes and that render's effects
ToggleMode(newMode) ==
  /\ phase = "mounted"
  /\ newMode # mode
  /\ mode' = newMode
  /\ poll' = PollEffects(poll, Enabled(mode), Enabled(newMode))
  /\ UNCHANGED <<phase, strict, ws, reconnectsUsed, failStreak>>
  /\ UNCHANGED svars

\* the automatic-fallback effect, the render it causes and that render's effects
FallbackEffect ==
  /\ phase = "mounted"
  /\ mode = "websocket"
  /\ ws.error = ErrMax
  /\ mode' = "polling"
  /\ poll' = PollEffects(poll, Enabled(mode), TRUE)
  /\ UNCHANGED <<phase, strict, ws, reconnectsUsed, failStreak>>
  /\ UNCHANGED svars

\* any other render in polling mode: onError is a new function on every
\* render, so fetchData is too and both effects of the hook run again
Render ==
  /\ phase = "mounted"
  /\ Enabled(mode)
  /\ poll' = PollEffects(poll, TRUE, TRUE)
  /\ UNCHANGED <<phase, strict, mode, ws, reconnectsUsed, failStreak>>
  /\ UNCHANGED svars

\* ---------------------------------------------------- websocket events
SockOpen(s) ==
  /\ ws.sock[s] = "CONNECTING"
  /\ ws' = OnOpen([ws EXCEPT !.sock[s] = "OPEN"])
  /\ failStreak' = 0
  /\ UNCHANGED <<phase, strict, mode, poll, reconnectsUsed>>
  /\ UNCHANGED svars

SockMessage(s) ==
  /\ ws.sock[s] = "OPEN"
  /\ ws' = OnMessage(ws)
  /\ UNCHANGED <<phase, strict, mode, poll, reconnectsUsed, failStreak>>
  /\ UNCHANGED svars

\* the network or the server ends a socket the hook has not closed: an error
\* event (always when the socket was still connecting) and the close event
SockFail(s, withError) ==
  /\ ws.sock[s] \in Live
  /\ ws.sock[s] = "CONNECTING" => withError
  /\ LET w0 == [ws EXCEPT !.sock[s] = "CLOSED"]
     IN ws' = OnClose(IF withError THEN OnError(w0) ELSE w0)
  /\ failStreak' = IF failStreak <= MaxReconnectAttempts THEN failStreak + 1 ELSE failStreak
  /\ UNCHANGED <<phase, strict, mode, poll, reconnectsUsed>>
  /\ UNCHANGED svars

\* the close event of a socket the hook closed itself
SockClosed(s) ==
  /\ ws.sock[s] \in ByHook
  /\ LET w0 == [ws EXCEPT !.sock[s] = "CLOSED"]
     IN ws' = OnClose(IF ws.sock[s] = "ABORTING" THEN OnError(w0) ELSE w0)
  /\ UNCHANGED <<phase, strict, mode, poll, reconnectsUsed, failStreak>>
  /\ UNCHANGED svars

\* the retry timer fires: connect()
TimerFire(t) ==
  /\ t \in ws.timers
  /\ ws' = Connect([ws EXCEPT !.timers = @ \ {t}])
  /\ UNCHANGED <<phase, strict, mode, poll, reconnectsUsed, failStreak>>
  /\ UNCHANGED svars

\* the component invokes the reconnect() the hook returns
ReconnectCall ==
  /\ phase = "mounted"
  /\ reconnectsUsed < MaxReconnects
  /\ reconnectsUsed' = reconnectsUsed + 1
  /\ ws' = Reconnect(ws)
  /\ failStreak' = 0
  /\ UNCHANGED <<phase, strict, mode, poll>>
  /\ UNCHANGED svars

\* ------------------------------------------------------- polling events
\* a setInterval callback: fetchData() of the render that set the interval
IntervalTick ==
  /\ poll.intervals > 0
  /\ poll' = FetchData(poll, TRUE)
  /\ UNCHANGED <<phase, strict, mode, ws, reconnectsUsed, failStreak>>
  /\ UNCHANGED svars

\* the awaited fetch settles
FetchResolve(ok) ==
  /\ poll.inFlight > 0
  /\ poll' = FetchSettled(poll, ok)
  /\ UNCHANGED <<phase, strict, mode, ws, reconnectsUsed, failStreak>>
  /\ UNCHANGED svars

\* the component invokes the refresh() the hook returns
RefreshCall ==
  /\ phase = "mounted"
  /\ poll' = Refresh(poll, Enabled(mode))
  /\ UNCHANGED <<phase, strict, mode, ws, reconnectsUsed, failStreak>>
  /\ UNCHANGED svars

Next ==
  \/ Mount
  \/ Unmount
  \/ FallbackEffect
  \/ \E m \in {"websocket", "polling"} : ToggleMode(m)
  \/ Render
  \/ \E s \in SockIds : SockOpen(s)
  \/ \E s \in SockIds : SockMessage(s)
  \/ \E s \in SockIds, e \in BOOLEAN : SockFail(s, e)
  \/ \E s \in SockIds : SockClosed(s)
  \/ \E t \in TimerIds : TimerFire(t)
  \/ ReconnectCall
  \/ IntervalTick
  \/ \E ok \in BOOLEAN : FetchResolve(ok)
  \/ RefreshCall

Spec == Init /\ [][Next]_allvars


\* ===================================================================
\* The store on its own: AgentDBService under any caller
\* ===================================================================
\* the client is not running (the server side is checked on its own)
ClientOff ==
  /\ phase = "init"
  /\ strict = FALSE
  /\ mode = DefaultMode
  /\ ws = WsInit
  /\ poll = PollInit
  /\ reconnectsUsed = 0
  /\ failStreak = 0

\* the metrics a caller hands to the store: a line point of every timestamp
\* and a second one of the latest, bar points of two categories, of two
\* timestamps and of the empty category, a pie point, and a point whose value
\* is missing
Timestamps == 0..MaxTime
StoreMetrics ==
  {Metric(ts, "line", NoCat, 1) : ts \in Timestamps}
    \cup {Metric(MaxTime, "line", NoCat, 2)}
    \cup {Metric(MaxTime, "bar", c, 1) : c \in {EmptyCat, 1, 2}}
    \cup {Metric(0, "bar", 1, 2), Metric(0, "pie", 1, 2), Metric(0, "pie", 2, Undefined)}
\* the points a batch is made of: a line point, a bar point, and the point
\* whose value is missing
BatchMetrics ==
  {Metric(MaxTime, "line", NoCat, 1), Metric(0, "bar", 1, 2), Metric(0, "pie", 2, Undefined)}
Batches == UNION {[1..n -> BatchMetrics] : n \in 0..MaxBatch}
Limits == 0..MaxLimit
HoursToKeep == {0, 1}

InitStore ==
  /\ ClientOff
  /\ \E plan \in Plans : db = DbInit(plan)
  /\ ret = RetInit
  /\ clients = {}
  /\ conn = ConnInit
  /\ sent = SentInit
  /\ cast = CastInit

InsertMetricCall(metric) ==
  /\ db.seq < MaxRows
  /\ LET r == InsertMetric(db, metric)
     IN /\ db' = r.db
        /\ ret' = Return("insertMetric", 1, r.value, r.threw)
  /\ UNCHANGED <<clients, conn, sent, cast>>
  /\ UNCHANGED vars

InsertMetricsBatchCall(metrics) ==
  /\ db.seq + Len(metrics) <= MaxRows
  /\ LET r == InsertMetricsBatch(db, metrics)
     IN /\ db' = r.db
        /\ ret' = Return("insertMetricsBatch", metrics, r.value, r.threw)
  /\ UNCHANGED <<clients, conn, sent, cast>>
  /\ UNCHANGED vars

GetLineChartDataCall(limit) ==
  /\ ret' = Return("getLineChartData", limit, GetLineChartData(db, limit), FALSE)
  /\ UNCHANGED <<db, clients, conn, sent, cast>>
  /\ UNCHANGED vars

GetBarChartDataCall ==
  /\ ret' = Return("getBarChartData", 0, GetBarChartData(db), FALSE)
  /\ UNCHANGED <<db, clients, conn, sent, cast>>
  /\ UNCHANGED vars

GetPieChartDataCall ==
  /\ ret' = Return("getPieChartData", 0, GetPieChartData(db), FALSE)
  /\ UNCHANGED <<db, clients, conn, sent, cast>>
  /\ UNCHANGED vars

GetTotalEventsCall ==
  /\ ret' = Return("getTotalEvents", 0, GetTotalEvents(db), FALSE)
  /\ UNCHANGED <<db, clients, conn, sent, cast>>
  /\ UNCHANGED vars

GetDashboardDataCall(t) ==
  /\ ret' = Return("getDashboardData", 0, GetDashboardData(db, t), FALSE)
  /\ UNCHANGED <<db, clients, conn, sent, cast>>
  /\ UNCHANGED vars

\* arg is the cutoff the call computed
CleanupOldDataCall(t, hoursToKeep) ==
  /\ LET r == CleanupOldData(db, t, hoursToKeep)
     IN /\ db' = r.db
        /\ ret' = Return("cleanupOldData", CutoffTime(t, hoursToKeep), r.value, r.threw)
  /\ UNCHANGED <<clients, conn, sent, cast>>
  /\ UNCHANGED vars

NextStore ==
  \/ \E metric \in StoreMetrics : InsertMetricCall(metric)
  \/ \E metrics \in Batches : InsertMetricsBatchCall(metrics)
  \/ \E limit \in Limits : GetLineChartDataCall(limit)
  \/ GetBarChartDataCall
  \/ GetPieChartDataCall
  \/ GetTotalEventsCall
  \/ \E t \in Clock : GetDashboardDataCall(t)
  \/ \E t \in Clock, h \in HoursToKeep : CleanupOldDataCall(t, h)

SpecStore == InitStore /\ [][NextStore]_allvars


\* ===================================================================
\* The server process: src/server/index.ts
\* ===================================================================
\* Every action is one task of the Node event loop: a handler of the
\* WebSocket server, of a connection or of an HTTP route, or the callback of
\* the generator interval.  An HTTP route writes its response in ret; after
\* any other handler ret is empty.
\*
\* A connection is the WebSocket object the `ws' library hands to the
\* 'connection' handler: NEW (not offered yet), OPEN, CLOSING (the closing
\* handshake has begun or the socket has failed; 'close' is not emitted yet)
\* and CLOSED.  handled records that a 'close' or 'error' handler has run.
\* The connections are numbered in the order they are accepted.

\* in the runs of the server Math.random() returns 0
ServerDraws == {"lo"}

\* a database file an earlier run left behind: its seed, one tick, and a
\* cleanup that deleted the seed
PersistedDb(plan) ==
  LET seeded == InsertMetricsBatch(DbInit(plan), SeedHistoricalData(0, 1, "lo")).db
      ticked == InsertMetricsBatch(seeded, GenerateRealtimeData(60, "hi")).db
  IN CleanupOldData(ticked, 60, 0).db

\* mutant: history is seeded whatever the table holds
Startup_Always(d, t, draw) ==
  InsertMetricsBatch(d, SeedHistoricalData(t, 1, draw)).db

\* startup: seed one hour of history when the table is empty
Startup(d, t, draw) ==
  IF GetStatsTotal(d) = 0
  THEN InsertMetricsBatch(d, SeedHistoricalData(t, 1, draw)).db
  ELSE d

\* the process has opened the database file and has not yet run the seeding
\* check
InitServer ==
  /\ ClientOff
  /\ \E plan \in Plans : db \in {DbInit(plan), PersistedDb(plan)}
  /\ ret = RetInit
  /\ clients = {}
  /\ conn = ConnInit
  /\ sent = SentInit
  /\ cast = CastInit

\* generator ticks, seed requests and cleanup requests that reached the store
Writes == cast.ticks + cast.seeds + cast.cleanups

\* the module's top-level code has run: routes and handlers are registered,
\* the generator interval is set, the server listens
Listening == cast.process = "listening"

\* top-level code up to server.listen: the seeding check, then listening
ServerStartup(t, draw) ==
  /\ cast.process = "starting"
  /\ db' = Startup(db, t, draw)
  /\ cast' = [cast EXCEPT !.process = "listening"]
  /\ ret' = RetInit
  /\ UNCHANGED <<clients, conn, sent>>
  /\ UNCHANGED vars

Initial(data) == [type |-> "initial", data |-> data]
Update(data, t) == [type |-> "update", data |-> data, timestamp |-> t]

\* mutant: the new connection is registered and gets no initial snapshot
ServerOnConnection_NoInitial(c, t) ==
  /\ Listening
  /\ conn[c].readyState = "NEW"
  /\ \A b \in ConnIds : b < c => conn[b].readyState # "NEW"
  /\ conn' = [conn EXCEPT ![c].readyState = "OPEN"]
  /\ clients' = clients \cup {c}
  /\ ret' = RetInit
  /\ UNCHANGED <<db, sent, cast>>
  /\ UNCHANGED vars

\* wss.on('connection'): register the socket, send the initial snapshot
ServerOnConnection(c, t) ==
  /\ Listening
  /\ conn[c].readyState = "NEW"
  /\ \A b \in ConnIds : b < c => conn[b].readyState # "NEW"
  /\ conn' = [conn EXCEPT ![c].readyState = "OPEN"]
  /\ clients' = clients \cup {c}
  /\ LET initialData == GetDashboardData(db, t)
     IN sent' = [sent EXCEPT ![c] = Append(@, Initial(initialData))]
  /\ ret' = RetInit
  /\ UNCHANGED <<db, cast>>
  /\ UNCHANGED vars

\* the peer starts the closing handshake: readyState changes, no handler runs
ConnClosing(c) ==
  /\ Listening
  /\ conn[c].readyState = "OPEN"
  /\ conn' = [conn EXCEPT ![c].readyState = "CLOSING"]
  /\ ret' = RetInit
  /\ UNCHANGED <<db, clients, sent, cast>>
  /\ UNCHANGED vars

\* mutant: the 'error' handler only logs
ServerOnError_LogOnly(c) ==
  /\ Listening
  /\ conn[c].readyState \in {"OPEN", "CLOSING"}
  /\ conn' = [conn EXCEPT ![c] = [readyState |-> "CLOSING", handled |-> TRUE]]
  /\ clients' = clients
  /\ ret' = RetInit
  /\ UNCHANGED <<db, sent, cast>>
  /\ UNCHANGED vars

\* ws.on('error'): the socket has failed and is closing
ServerOnError(c) ==
  /\ Listening
  /\ conn[c].readyState \in {"OPEN", "CLOSING"}
  /\ conn' = [conn EXCEPT ![c] = [readyState |-> "CLOSING", handled |-> TRUE]]
  /\ clients' = clients \ {c}
  /\ ret' = RetInit
  /\ UNCHANGED <<db, sent, cast>>
  /\ UNCHANGED vars

\* ws.on('close'): the socket is closed
ServerOnClose(c) ==
  /\ Listening
  /\ conn[c].readyState \in {"OPEN", "CLOSING"}
  /\ conn' = [conn EXCEPT ![c] = [readyState |-> "CLOSED", handled |-> TRUE]]
  /\ clients' = clients \ {c}
  /\ ret' = RetInit
  /\ UNCHANGED <<db, sent, cast>>
  /\ UNCHANGED vars

\* mutant: the update is sent to every registered connection, open or not
BroadcastUpdate_NoReadyStateCheck(cl, cn, sn, data, t) ==
  IF cl = {} THEN [sent |-> sn, snapshots |-> 0, sentTo |-> {}]
  ELSE [sent |-> [c \in ConnIds |-> IF c \in cl THEN Append(sn[c], Update(data, t)) ELSE sn[c]],
        snapshots |-> 1,
        sentTo |-> cl]

\* broadcastUpdate() where data is what getDashboardData() returns: what has
\* been sent afterwards, how many snapshots were computed, who was sent to
BroadcastUpdate(cl, cn, sn, data, t) ==
  IF cl = {} THEN [sent |-> sn, snapshots |-> 0, sentTo |-> {}]
  ELSE LET open == {c \in cl : cn[c].readyState = "OPEN"}
       IN [sent |-> [c \in ConnIds |-> IF c \in open THEN Append(sn[c], Update(data, t)) ELSE sn[c]],
           snapshots |-> 1,
           sentTo |-> open]

\* mutant: the broadcast runs before the batch is written
GeneratorTick_BroadcastFirst(t, draw) ==
  /\ Listening
  /\ Writes < MaxWrites
  /\ LET r == InsertMetricsBatch(db, GenerateRealtimeData(t, draw))
     IN /\ db' = r.db
        /\ ret' = RetInit
        /\ LET b == BroadcastUpdate(clients, conn, sent, GetDashboardData(db, t), t)
           IN /\ sent' = b.sent
              /\ cast' = [cast EXCEPT !.ticks = @ + 1,
                                      !.snapshots = b.snapshots,
                                      !.sentTo = b.sentTo]
  /\ UNCHANGED <<clients, conn>>
  /\ UNCHANGED vars

\* the setInterval callback of startContinuousGeneration:
\* generateRealtimeData(), then the callback, which is broadcastUpdate()
GeneratorTick(t, draw) ==
  /\ Listening
  /\ Writes < MaxWrites
  /\ LET r == InsertMetricsBatch(db, GenerateRealtimeData(t, draw))
     IN /\ db' = r.db
        /\ ret' = RetInit
        /\ LET b == BroadcastUpdate(clients, conn, sent, GetDashboardData(r.db, t), t)
           IN /\ sent' = b.sent
              /\ cast' = [cast EXCEPT !.ticks = @ + 1,
                                      !.snapshots = b.snapshots,
                                      !.sentTo = b.sentTo]
  /\ UNCHANGED <<clients, conn>>
  /\ UNCHANGED vars

\* mutant: the poll response counts every row ever inserted
GetApiDashboard_CountsSequence(t) ==
  /\ Listening
  /\ ret' = Return("GET /api/dashboard", t,
                   [GetDashboardData(db, t) EXCEPT !.totalEvents = db.seq], FALSE)
  /\ UNCHANGED <<db, clients, conn, sent, cast>>
  /\ UNCHANGED vars

\* GET /api/dashboard
GetApiDashboard(t) ==
  /\ Listening
  /\ ret' = Return("GET /api/dashboard", t, GetDashboardData(db, t), FALSE)
  /\ UNCHANGED <<db, clients, conn, sent, cast>>
  /\ UNCHANGED vars

\* the hours member of a JSON request body, as its JSON text; "absent" when
\* the body has no such member
JsonHours == {"absent", "0", "1", "null", "true", "abc", "[]"}
NaN == -3
\* const {hours = dflt} = req.body: the default replaces undefined only
Destructure(hours, dflt) == IF hours = "absent" THEN dflt ELSE hours
\* the number JavaScript makes of the value in hours * 60 * 60 * 1000
ToNumber(hours) ==
  CASE hours \in {"0", "null", "[]"} -> 0
    [] hours \in {"1", "true"} -> 1
    [] OTHER -> NaN
\* the bodies the model sends: a seed request without hours and one with a
\* non-numeric string; a cleanup request with null, which acts as hours 0,
\* and one with a non-numeric string
SeedRequests == {"absent", "abc"}
CleanupRequests == {"null", "abc"}

\* POST /api/seed with body {hours}: seedHistoricalData(hours) throws a
\* RangeError from toISOString() when the times it computes are NaN, and the
\* catch block answers 500
PostApiSeed(t, hours, draw) ==
  /\ Listening
  /\ Writes < MaxWrites
  /\ LET n == ToNumber(Destructure(hours, "1"))
         r == IF n = NaN
              THEN [db |-> db, value |-> 0, threw |-> TRUE]
              ELSE InsertMetricsBatch(db, SeedHistoricalData(t, n, draw))
     IN /\ db' = r.db
        /\ ret' = Return("POST /api/seed", hours, r.value, r.threw)
        /\ cast' = IF r.threw THEN cast ELSE [cast EXCEPT !.seeds = @ + 1]
  /\ UNCHANGED <<clients, conn, sent>>
  /\ UNCHANGED vars

\* DELETE /api/cleanup with body {hours}: cleanupOldData(hours) throws a
\* RangeError from toISOString() when the cutoff is NaN. The default of 24
\* hours is further back than any row of the model: such a cleanup deletes
\* nothing and is left out of CleanupRequests.
DeleteApiCleanup(t, hours) ==
  /\ Listening
  /\ Writes < MaxWrites
  /\ LET n == ToNumber(Destructure(hours, "24"))
         r == IF n = NaN
              THEN [db |-> db, value |-> 0, threw |-> TRUE]
              ELSE CleanupOldData(db, t, n)
     IN /\ db' = r.db
        /\ ret' = Return("DELETE /api/cleanup", hours, r.value, r.threw)
        /\ cast' = IF r.threw THEN cast ELSE [cast EXCEPT !.cleanups = @ + 1]
  /\ UNCHANGED <<clients, conn, sent>>
  /\ UNCHANGED vars

\* GET /api/stats: value is stats.totalMetrics
GetApiStats ==
  /\ Listening
  /\ ret' = Return("GET /api/stats", 0, GetStatsTotal(db), FALSE)
  /\ UNCHANGED <<db, clients, conn, sent, cast>>
  /\ UNCHANGED vars

\* GET /health: value is the clients field of the response
GetHealth ==
  /\ Listening
  /\ ret' = Return("GET /health", 0, Cardinality(clients), FALSE)
  /\ UNCHANGED <<db, clients, conn, sent, cast>>
  /\ UNCHANGED vars

NextServer ==
  \/ \E draw \in ServerDraws : ServerStartup(ServerNow(0), draw)
  \/ \E c \in ConnIds : ServerOnConnection(c, ServerNow(Writes))
  \/ \E c \in ConnIds : ConnClosing(c)
  \/ \E c \in ConnIds : ServerOnError(c)
  \/ \E c \in ConnIds : ServerOnClose(c)
  \/ \E draw \in ServerDraws : GeneratorTick(ServerNow(Writes + 1), draw)
  \/ GetApiDashboard(ServerNow(Writes))
  \/ \E hours \in SeedRequests, draw \in ServerDraws :
       PostApiSeed(ServerNow(Writes + 1), hours, draw)
  \/ \E hours \in CleanupRequests : DeleteApiCleanup(ServerNow(Writes), hours)
  \/ GetHealth

SpecServer == InitServer /\ [][NextServer]_allvars

\* ------------------------------------------------ server, failing store
\* A call of the store throws (the disk is full, the file is locked, the
\* database was closed by the shutdown handler while a request was pending).
MaxFaults == 1
\* res.status(500).json({success: false, error}) of the routes' catch blocks
FailureResult == "500 {success: false, error}"
\* what Express answers when a handler throws: status 500, an HTML page
ErrorPage == "500 text/html"
Faulty == Listening /\ cast.faults < MaxFaults
Fault == [cast EXCEPT !.faults = @ + 1]
\* an exception nobody catches ends the Node process
Exit == [cast EXCEPT !.faults = @ + 1, !.process = "exited"]

\* GET /api/dashboard when getDashboardData() throws
GetApiDashboardStoreFails(t) ==
  /\ Faulty
  /\ ret' = Return("GET /api/dashboard", t, FailureResult, TRUE)
  /\ cast' = Fault
  /\ UNCHANGED <<db, clients, conn, sent>>
  /\ UNCHANGED vars

\* GET /api/stats when getStats() throws
GetApiStatsStoreFails ==
  /\ Faulty
  /\ ret' = Return("GET /api/stats", 0, FailureResult, TRUE)
  /\ cast' = Fault
  /\ UNCHANGED <<db, clients, conn, sent>>
  /\ UNCHANGED vars

\* POST /api/seed when insertMetricsBatch() throws: the transaction is rolled
\* back
PostApiSeedStoreFails(hours) ==
  /\ Faulty
  /\ ret' = Return("POST /api/seed", hours, FailureResult, TRUE)
  /\ cast' = Fault
  /\ UNCHANGED <<db, clients, conn, sent>>
  /\ UNCHANGED vars

\* DELETE /api/cleanup when cleanupOldData() throws
DeleteApiCleanupStoreFails(hours) ==
  /\ Faulty
  /\ ret' = Return("DELETE /api/cleanup", hours, FailureResult, TRUE)
  /\ cast' = Fault
  /\ UNCHANGED <<db, clients, conn, sent>>
  /\ UNCHANGED vars

\* GET /health when getStats() throws: the handler has no try/catch
GetHealthStoreFails ==
  /\ Faulty
  /\ ret' = Return("GET /health", 0, ErrorPage, TRUE)
  /\ cast' = Fault
  /\ UNCHANGED <<db, clients, conn, sent>>
  /\ UNCHANGED vars

\* the interval callback when insertMetricsBatch() throws (stage "insert":
\* nothing is written) or when the getDashboardData() of broadcastUpdate
\* throws (stage "snapshot": the batch is written, nothing is sent)
GeneratorTickStoreFails(t, draw, stage) ==
  /\ Faulty
  /\ Writes < MaxWrites
  /\ stage = "snapshot" => clients # {}
  /\ db' = IF stage = "insert" THEN db
           ELSE InsertMetricsBatch(db, GenerateRealtimeData(t, draw)).db
  /\ cast' = IF stage = "insert" THEN Exit ELSE [Exit EXCEPT !.ticks = @ + 1]
  /\ ret' = RetInit
  /\ UNCHANGED <<clients, conn, sent>>
  /\ UNCHANGED vars

\* wss.on('connection') when getDashboardData() throws: the socket is
\* registered, nothing is sent, no close or error handler is attached
ServerOnConnectionStoreFails(c) ==
  /\ Faulty
  /\ conn[c].readyState = "NEW"
  /\ \A b \in ConnIds : b < c => conn[b].readyState # "NEW"
  /\ conn' = [conn EXCEPT ![c].readyState = "OPEN"]
  /\ clients' = clients \cup {c}
  /\ cast' = Exit
  /\ ret' = RetInit
  /\ UNCHANGED <<db, sent>>
  /\ UNCHANGED vars

NextFaulty ==
  \/ NextServer
  \/ GetApiStats
  \/ GetApiDashboardStoreFails(ServerNow(Writes))
  \/ GetApiStatsStoreFails
  \/ \E hours \in SeedRequests : PostApiSeedStoreFails(hours)
  \/ \E hours \in CleanupRequests : DeleteApiCleanupStoreFails(hours)
  \/ GetHealthStoreFails
  \/ \E draw \in ServerDraws, stage \in {"insert", "snapshot"} :
       GeneratorTickStoreFails(ServerNow(Writes + 1), draw, stage)
  \/ \E c \in ConnIds : ServerOnConnectionStoreFails(c)

SpecFaulty == InitServer /\ [][NextFaulty]_allvars

\* ===================================================================
\* Properties
\* ===================================================================
LiveSocks(w) == {s \in SockIds : w.sock[s] \in Live}
NewSocks(w, w2) == {s \in SockIds : w.sock[s] = "CLOSED" /\ w2.sock[s] = "CONNECTING"}
NewTimers(w, w2) == w2.timers \ w.timers

\* the step handles the open event of a socket (SockOpen)
AnyOpen == \E s \in SockIds : ws.sock[s] = "CONNECTING" /\ ws'.sock[s] = "OPEN"
\* the step handles an unintentional close (SockFail)
AnyFail == \E s \in SockIds : ws.sock[s] \in Live /\ ws'.sock[s] = "CLOSED"
\* the step handles the close event of a socket the hook closed (SockClosed)
AnyClosed == \E s \in SockIds : ws.sock[s] \in ByHook /\ ws'.sock[s] = "CLOSED"
\* the step is a manual reconnect (ReconnectCall)
AnyReconnect == reconnectsUsed' = reconnectsUsed + 1

\* the push state machine is FAILED: the marker is the error state
Failed == ws.error = ErrMax

\* C1: the poll loop has at most one fetch in flight at any instant, whatever
\* the interleaving of interval ticks, effect runs, refresh() calls and
\* fetch completions: a call of fetchData while a fetch is unresolved issues
\* no request.
C1_AtMostOneFetchInFlight == poll.inFlight <= 1

\* C1 witness: a fetch has resolved with data, the next one is unresolved and
\* the interval is live, so the ticks that arrive now are the skipped ones.
C1_Witness ==
  /\ poll.inFlight = 1
  /\ poll.fetchingRef
  /\ poll.intervals = 1
  /\ poll.data = "poll"

\* C2 (as claimed): every successful open sets the attempt counter to 0; every
\* unintentional close handled while the counter is below the maximum raises
\* it by exactly 1 and schedules exactly one retry timer; manual reconnect
\* sets it to 0; no other event changes it.
C2_CounterDiscipline ==
  [][ /\ AnyOpen => ws'.reconnectAttemptRef = 0
      /\ (AnyFail /\ ws.reconnectAttemptRef < MaxReconnectAttempts) =>
            /\ ws'.reconnectAttemptRef = ws.reconnectAttemptRef + 1
            /\ Cardinality(NewTimers(ws, ws')) = 1
      /\ AnyReconnect => ws'.reconnectAttemptRef = 0
      /\ ~(AnyOpen \/ AnyFail \/ AnyReconnect) =>
            ws'.reconnectAttemptRef = ws.reconnectAttemptRef
    ]_vars

\* C3 (as claimed): starting from counter 0, after exactly
\* MaxReconnectAttempts consecutive unintentional failures with no open in
\* between the push state machine is FAILED: the marker is set and no retry
\* timer is pending.
C3_FailedAfterMaxFailures ==
  failStreak = MaxReconnectAttempts => (Failed /\ ws.timers = {})

\* C3 (amended): the counter counts the retries already scheduled.  A close
\* that ws.onclose handles as a failure (flag clear, hook mounted) while the
\* counter is below the maximum raises it by 1 and schedules one retry
\* without setting the marker; only a close handled when the counter already
\* equals the maximum sets the marker, and it schedules nothing.  So in a run
\* without manual reconnect, starting from counter 0 with no open in between,
\* the machine is FAILED (marker set, no retry timer, no socket) after
\* MaxReconnectAttempts + 1 consecutive failures, the first attempt and every
\* retry, and not after MaxReconnectAttempts or fewer.
C3_FailedOnFailureAtMax ==
  /\ [][ /\ (AnyFail /\ ~ws.intentionalCloseRef /\ ws.mountedRef) =>
              IF ws.reconnectAttemptRef < MaxReconnectAttempts
              THEN /\ ws'.reconnectAttemptRef = ws.reconnectAttemptRef + 1
                   /\ Cardinality(NewTimers(ws, ws')) = 1
                   /\ ws'.error # ErrMax \/ ws'.error = ws.error
              ELSE /\ ws'.reconnectAttemptRef = MaxReconnectAttempts
                   /\ ws'.timers = ws.timers
                   /\ phase = "mounted" => ws'.error = ErrMax
         /\ (~Failed /\ Failed') => ws.reconnectAttemptRef = MaxReconnectAttempts
       ]_vars
  /\ [](reconnectsUsed = 0 =>
          /\ failStreak <= MaxReconnectAttempts => ~Failed
          /\ (failStreak = MaxReconnectAttempts + 1 /\ phase = "mounted") =>
                (Failed /\ ws.timers = {} /\ LiveSocks(ws) = {}))

\* C3 witness: FAILED reached by MaxReconnectAttempts + 1 consecutive failures.
C3_Witness ==
  /\ failStreak = MaxReconnectAttempts + 1
  /\ reconnectsUsed = 0
  /\ Failed
  /\ ws.timers = {}
  /\ ws.reconnectAttemptRef = MaxReconnectAttempts

\* C4 (as claimed): FAILED is terminal: while the marker is set no socket is
\* created and no retry timer is scheduled except by a manual reconnect.
C4_FailedIsTerminal ==
  [][ (Failed /\ ~AnyReconnect) =>
         (NewSocks(ws, ws') = {} /\ NewTimers(ws, ws') = {}) ]_vars

\* C5 (as claimed), for a run without manual reconnect: when the supervisor
\* reacts to the marker it sets the mode to polling and the poll loop becomes
\* active (its interval is set and a fetch is in flight), while the push
\* transport has no socket and no retry timer.
C5_FailoverActivatesPolling ==
  [][ (reconnectsUsed = 0 /\ FallbackEffect) =>
         /\ mode' = "polling"
         /\ poll'.intervals = 1
         /\ poll'.inFlight = 1
         /\ \A s \in SockIds : ws'.sock[s] = "CLOSED"
         /\ ws'.timers = {} ]_vars

\* C6 (as claimed): one push manager has at most one connecting or open
\* socket and at most one pending retry timer, and never a connecting or open
\* socket together with a pending retry timer.
C6_OneSocketOneTimer ==
  /\ Cardinality(LiveSocks(ws)) <= 1
  /\ Cardinality(ws.timers) <= 1
  /\ ~(LiveSocks(ws) # {} /\ ws.timers # {})

\* C7 (as claimed): once reconnect() has been called, the close event of a
\* socket the hook closed itself neither changes the attempt counter nor
\* schedules a retry timer.
C7_ReconnectCloseIsIntentional ==
  [][ (reconnectsUsed > 0 /\ AnyClosed) =>
         /\ ws'.reconnectAttemptRef = ws.reconnectAttemptRef
         /\ NewTimers(ws, ws') = {} ]_vars

\* C8 (as claimed): after teardown no socket of the manager is connecting or
\* open, no retry timer is pending and no poll interval is live.
C8_TeardownStopsEverything ==
  phase = "unmounted" =>
    /\ LiveSocks(ws) = {}
    /\ ws.timers = {}
    /\ poll.intervals = 0

\* C9 (as claimed): exactly one transport is active: in polling mode the push
\* transport has no connecting or open socket and no pending retry timer, in
\* push mode the poll loop has no interval timer.
C9_ExactlyOneTransport ==
  phase = "mounted" =>
    IF mode = "polling"
    THEN LiveSocks(ws) = {} /\ ws.timers = {}
    ELSE poll.intervals = 0

\* C10 (as claimed), for a selection made after the automatic failover:
\* selecting the push transport stops the poll loop and starts one connection
\* attempt with the attempt counter at 0.
C10_ForceSelectPushRestarts ==
  [][ (Failed /\ ToggleMode("websocket")) =>
         /\ poll'.intervals = 0
         /\ Cardinality(LiveSocks(ws')) = 1
         /\ ws'.reconnectAttemptRef = 0 ]_vars

\* ===================================================================
\* Properties of the store (SpecStore)
\* ===================================================================
\* In SpecStore every call writes ret, so a step that changes the state and
\* leaves op in ret' is a call of op.
Called(op) == ret'.op = op

\* C11: a batch that commits raises totalEvents by exactly the size of the
\* batch and returns that size, and a read (getTotalEvents, getDashboardData)
\* made between two calls observes the count of the table as the last call
\* left it: the count before a batch or the count after it, nothing between.
C11_BatchCountExact ==
  [][/\ (Called("insertMetricsBatch") /\ ~ret'.threw) =>
          /\ GetTotalEvents(db') = GetTotalEvents(db) + Len(ret'.arg)
          /\ ret'.value = Len(ret'.arg)
     /\ Called("getTotalEvents") =>
          (db' = db /\ ret'.value = GetTotalEvents(db))
     /\ Called("getDashboardData") =>
          (db' = db /\ ret'.value.totalEvents = GetTotalEvents(db))]_allvars

\* a batch of two points committed onto a table that held one row
C11_Witness ==
  /\ ret.op = "insertMetricsBatch"
  /\ ~ret.threw
  /\ Len(ret.arg) = 2
  /\ GetTotalEvents(db) = 3

\* C12: insertMetricsBatch is all-or-nothing: when a point of the batch cannot
\* be inserted the call throws and the table, the AUTOINCREMENT sequence and
\* so every later read are as before the call; when every point can be
\* inserted the call does not throw.
C12_BatchAllOrNothing ==
  [][Called("insertMetricsBatch") =>
       /\ ret'.threw <=> (\E i \in 1..Len(ret'.arg) : ~Bindable(ret'.arg[i]))
       /\ ret'.threw => db' = db]_allvars

\* the second point of a batch failed after the first was inserted, and the
\* table still holds only the row it held before
C12_Witness ==
  /\ ret.op = "insertMetricsBatch"
  /\ ret.threw
  /\ Len(ret.arg) = 2
  /\ Bindable(ret.arg[1])
  /\ ~Bindable(ret.arg[2])
  /\ GetTotalEvents(db) = 1
  /\ db.seq = 1

\* C13: for every table the store can hold, under either query plan, and
\* every limit >= 0, getLineChartData(limit) has min(limit, line rows) entries,
\* each the (timestamp, value) of a stored line row, in non-decreasing
\* timestamp order; they are the rows of the greatest timestamps (for every
\* timestamp x the result holds as many entries at or after x as the table,
\* up to its length), so the last entry carries the maximum timestamp; the
\* line series of getDashboardData is such a result for limit 10.
MinOf(a, b) == IF a < b THEN a ELSE b
MostRecentAscending(d, limit, r) ==
  LET S == RowsOfType(d, "line")
      k == MinOf(limit, Cardinality(S))
  IN /\ Len(r) = k
     /\ \A i \in 1..k : \E q \in S : q.timestamp = r[i].timestamp /\ q.value = r[i].value
     /\ \A i, j \in 1..k : i < j => r[i].timestamp <= r[j].timestamp
     /\ \A x \in {q.timestamp : q \in S} :
          Cardinality({i \in 1..k : r[i].timestamp >= x})
            = MinOf(k, Cardinality({q \in S : q.timestamp >= x}))
     /\ k > 0 => \A q \in S : q.timestamp <= r[k].timestamp
C13_LineSeriesMostRecentAscending ==
  /\ \A limit \in Limits : MostRecentAscending(db, limit, GetLineChartData(db, limit))
  /\ \A t \in Clock : MostRecentAscending(db, 10, GetDashboardData(db, t).lineChartData)

\* three line rows inserted out of timestamp order, read with limit 2: the
\* result is the two rows of the latest timestamp and leaves the oldest out
C13_Witness ==
  /\ ret.op = "getLineChartData"
  /\ ret.arg = 2
  /\ Cardinality(RowsOfType(db, "line")) = 3
  /\ \E a, b \in RowsOfType(db, "line") : a.id < b.id /\ a.timestamp > b.timestamp
  /\ Len(ret.value) = 2
  /\ \E q \in RowsOfType(db, "line") : q.timestamp < ret.value[1].timestamp

\* C14: for every table the store can hold, the bar series and the pie
\* series hold exactly one entry per distinct category stored with a row of
\* that type, in increasing category order, and each entry's count is the sum
\* of the values of all stored rows of that type and category.
SumOfCategory(d, type, c) ==
  SumValues({r \in d.rows : r.metricType = type /\ r.category = c})
OneSumPerCategory(d, type, s) ==
  LET cats == {r.category : r \in {q \in d.rows : q.metricType = type}} \ {SqlNull}
  IN /\ Len(s) = Cardinality(cats)
     /\ {s[i].category : i \in 1..Len(s)} = cats
     /\ \A i, j \in 1..Len(s) : i < j => s[i].category < s[j].category
     /\ \A i \in 1..Len(s) : s[i].count = SumOfCategory(d, type, s[i].category)
C15_CleanupDeletesExactlyOlder ==
  [][Called("cleanupOldData") =>
       /\ db'.rows = {r \in db.rows : ~(r.timestamp < ret'.arg)}
       /\ db'.seq = db.seq
       /\ ret'.value = Cardinality({r \in db.rows : r.timestamp < ret'.arg})
       /\ (ret.op = "cleanupOldData" /\ ret.arg = ret'.arg) =>
            (ret'.value = 0 /\ db' = db)]_allvars

\* a second cleanup with cutoff 1 deleted nothing: an earlier cleanup had
\* deleted a row and a row at the cutoff is still stored
C15_Witness ==
  /\ ret.op = "cleanupOldData"
  /\ ret.arg = 1
  /\ ret.value = 0
  /\ Cardinality(db.rows) < db.seq
  /\ \E r \in db.rows : r.timestamp = 1

\* C16: the totalEvents a read returns is the number of points that were ever
\* inserted (the AUTOINCREMENT sequence counts them), also after a cleanup
\* has deleted some of them.
C16_TotalEventsCountsEverStored ==
  /\ GetTotalEvents(db) = db.seq
  /\ \A t \in Clock : GetDashboardData(db, t).totalEvents = db.seq

\* ---------------------------------------------------------- push server
Accepted(c) == conn[c].readyState # "NEW"
AcceptStep(c) == conn[c].readyState = "NEW" /\ conn'[c].readyState = "OPEN"
TickStep == cast'.ticks = cast.ticks + 1
HandlerStep(c) == conn'[c].handled /\ conn'[c] # conn[c]

\* C17: on every accepted connection the first message sent is of type
\* 'initial' and every later one is an 'update'; nothing is sent on a
\* connection before it is accepted; the step that accepts a connection sends
\* exactly the initial message, whose data is the snapshot of the store at
\* that moment (totalEvents is the store's row count), whatever ticks,
\* seeds, cleanups and other accepts came before.
C17_InitialSnapshotFirst ==
  [][/\ \A c \in ConnIds :
          IF Accepted(c)'
          THEN /\ Len(sent'[c]) >= 1
               /\ sent'[c][1].type = "initial"
               /\ \A i \in 2..Len(sent'[c]) : sent'[c][i].type = "update"
          ELSE sent'[c] = <<>>
     /\ \A c \in ConnIds :
          AcceptStep(c) =>
            /\ sent'[c] = <<Initial(GetDashboardData(db, ServerNow(Writes)))>>
            /\ sent'[c][1].data.totalEvents = GetTotalEvents(db)
            /\ db' = db]_allvars

\* connection 1 was accepted before a generator tick and connection 2 after
\* it: 1 holds its initial message and the update, 2 only an initial message
\* that carries the larger row count the update carried
C17_Witness ==
  /\ cast.ticks = 1
  /\ Len(sent[1]) = 2
  /\ Len(sent[2]) = 1
  /\ sent[2][1].type = "initial"
  /\ sent[2][1].data.totalEvents = GetTotalEvents(db)
  /\ sent[2][1].data.totalEvents = sent[1][2].data.totalEvents
  /\ sent[2][1].data.totalEvents > sent[1][1].data.totalEvents

\* C18: in the broadcast of a generator tick a connection of the set that
\* cannot be sent to (it is no longer open) is removed from the set, the open
\* connections of the set receive the update, and the tick commits its batch.
C18_FailedSendRemovesConnection ==
  [][TickStep =>
       /\ \A c \in clients : conn[c].readyState # "OPEN" => c \notin clients'
       /\ \A c \in clients : conn[c].readyState = "OPEN" =>
            /\ Len(sent'[c]) = Len(sent[c]) + 1
            /\ sent'[c][Len(sent'[c])].type = "update"
       /\ db'.seq > db.seq]_allvars

\* C19: the broadcast of a generator tick computes no snapshot and sends
\* nothing when the connection set is empty; otherwise it computes one
\* snapshot, of the store as the tick left it, and appends one 'update'
\* message carrying it to exactly the connections of the set that are open;
\* a connection that is not open, or not in the set, receives nothing.
C19_OneSnapshotToOpenConnections ==
  [][TickStep =>
       IF clients = {}
       THEN /\ cast'.snapshots = 0
            /\ cast'.sentTo = {}
            /\ sent' = sent
       ELSE LET message == Update(GetDashboardData(db', ServerNow(Writes')), ServerNow(Writes'))
            IN /\ cast'.snapshots = 1
               /\ cast'.sentTo = {c \in clients : conn[c].readyState = "OPEN"}
               /\ \A c \in ConnIds :
                    sent'[c] = IF c \in clients /\ conn[c].readyState = "OPEN"
                               THEN Append(sent[c], message)
                               ELSE sent[c]]_allvars

\* a tick found one open and one closing connection in the set: the open one
\* got the update, the closing one still holds only its initial message
C19_Witness ==
  /\ cast.ticks = 1
  /\ cast.snapshots = 1
  /\ \E c, b \in clients :
       /\ conn[c].readyState = "OPEN"
       /\ conn[b].readyState = "CLOSING"
       /\ ~conn[b].handled
       /\ cast.sentTo = {c}
       /\ Len(sent[c]) = 2
       /\ sent[c][2].type = "update"
       /\ Len(sent[b]) = 1

\* C20: the connection set holds exactly the accepted connections for which
\* no close or error handler has run; accepting adds the connection, a close
\* or error handler removes it; a handler that runs for a connection already
\* handled changes nothing; the count /health reports is the set's size.
C20_ClientsAreAcceptedUnhandled ==
  [][/\ clients' = {c \in ConnIds : Accepted(c)' /\ ~conn'[c].handled}
     /\ \A c \in ConnIds : AcceptStep(c) => clients' = clients \cup {c} /\ c \notin clients
     /\ \A c \in ConnIds : HandlerStep(c) => clients' = clients \ {c}
     /\ \A c \in ConnIds : HandlerStep(c) /\ conn[c].handled => clients' = clients
     /\ Called("GET /health") => ret'.value = Cardinality(clients) /\ clients' = clients]_allvars

\* the close event of connection 1 has been handled, connection 2 is still
\* registered, and /health reports one connection
C20_Witness ==
  /\ conn[1] = [readyState |-> "CLOSED", handled |-> TRUE]
  /\ conn[2].readyState = "OPEN"
  /\ clients = {2}
  /\ ret.op = "GET /health"
  /\ ret.value = 1

\* C21: every generator tick adds exactly 9 rows to the table, all stamped
\* with the time of the tick: 1 line row and, for each of the 4 categories,
\* 1 bar row and 1 pie row; no earlier row changes. The tick runs one
\* broadcast: at most one snapshot is computed, every connection gains at
\* most one message, and the message is an 'update' carrying the snapshot of
\* the table with all 9 rows in it (its totalEvents is the row count after
\* the tick and its line series ends with the tick's line point).
TickRows == db'.rows \ db.rows
C21_TickCommitsThenBroadcasts ==
  [][TickStep =>
       /\ db.rows \subseteq db'.rows
       /\ Cardinality(TickRows) = 9
       /\ db'.seq = db.seq + 9
       /\ \A r \in TickRows : r.timestamp = ServerNow(Writes')
       /\ Cardinality({r \in TickRows : r.metricType = "line"}) = 1
       /\ \A type \in {"bar", "pie"} : \A c \in Categories :
            Cardinality({r \in TickRows : r.metricType = type /\ r.category = c}) = 1
       /\ cast'.snapshots <= 1
       /\ \A c \in ConnIds :
            \/ sent'[c] = sent[c]
            \/ /\ Len(sent'[c]) = Len(sent[c]) + 1
               /\ LET message == sent'[c][Len(sent'[c])]
                      series == message.data.lineChartData
                  IN /\ message.type = "update"
                     /\ message.data.totalEvents = GetTotalEvents(db')
                     /\ message.data.barChartData = GetBarChartData(db')
                     /\ message.data.pieChartData = GetPieChartData(db')
                     /\ series[Len(series)].timestamp = ServerNow(Writes')
                     /\ \E r \in TickRows :
                          r.metricType = "line" /\ r.value = series[Len(series)].value]_allvars

\* a connection holds its initial snapshot and the update of one tick, and the
\* update counts 9 points more than the initial snapshot
C21_Witness ==
  /\ cast.ticks = 1
  /\ \E c \in clients :
       /\ Len(sent[c]) = 2
       /\ sent[c][2].type = "update"
       /\ sent[c][2].data.totalEvents = sent[c][1].data.totalEvents + 9
       /\ sent[c][2].data.totalEvents = GetTotalEvents(db)

\* C22: the startup code seeds history exactly when the table is empty: an
\* empty table receives one batch of SeedSteps + 1 line points (61 in the
\* source) at distinct times up to now, and one bar and one pie point per
\* category stamped now (69 points in the source); a table that holds rows is
\* left as it is; either way the table is non-empty when the server starts to
\* listen, and until then no connection is accepted and no request answered.
StartupStep == cast.process = "starting" /\ cast'.process = "listening"
C22_StartupSeedsIffEmpty ==
  [][/\ StartupStep =>
          /\ IF GetTotalEvents(db) = 0
             THEN LET new == db'.rows \ db.rows
                      lines == {r \in new : r.metricType = "line"}
                  IN /\ db.rows \subseteq db'.rows
                     /\ Cardinality(new) = SeedSteps + 1 + 2 * NumCategories
                     /\ Cardinality(lines) = SeedSteps + 1
                     /\ Cardinality({r.timestamp : r \in lines}) = SeedSteps + 1
                     /\ \A r \in lines : r.timestamp <= ServerNow(0)
                     /\ \A type \in {"bar", "pie"} : \A c \in Categories :
                          Cardinality({r \in new : /\ r.metricType = type
                                                   /\ r.category = c
                                                   /\ r.timestamp = ServerNow(0)}) = 1
             ELSE db' = db
          /\ GetTotalEvents(db') > 0
     /\ cast'.process = "starting" =>
          /\ clients' = {}
          /\ conn' = ConnInit
          /\ sent' = SentInit
          /\ ret' = RetInit]_allvars

\* the server found an empty table, seeded it, and the first connection it
\* accepted got a snapshot counting the whole seed
C22_Witness ==
  /\ Listening
  /\ Writes = 0
  /\ db.seq = SeedSteps + 1 + 2 * NumCategories
  /\ \E c \in clients :
       sent[c] # <<>> /\ sent[c][1].data.totalEvents = SeedSteps + 1 + 2 * NumCategories

\* C24: a seed or cleanup request whose body carries an hours member that is
\* not a number (a non-numeric string, null, a boolean, an array) is answered
\* with a failure and leaves the table as it was: no row is inserted and none
\* is deleted.
Malformed(hours) == hours \in JsonHours \ {"absent", "0", "1"}
C24_MalformedBodyRejected ==
  [][(Called("POST /api/seed") \/ Called("DELETE /api/cleanup")) /\ Malformed(ret'.arg) =>
       /\ ret'.threw
       /\ db' = db]_allvars

\* C25: a store failure is never swallowed: when a store call throws inside a
\* request (dashboard, stats, seed, cleanup, health) the response is
\* {success: false, error} with status 500 and the table is unchanged; when
\* it throws inside a generator tick or the connection handler the error is
\* not dropped (the uncaught exception ends the process).
StoreFailureStep == cast'.faults = cast.faults + 1
C25_StoreFailureExplicit ==
  [][StoreFailureStep =>
       IF ret'.op # "none"
       THEN ret'.threw /\ ret'.value = FailureResult /\ db' = db
       ELSE cast'.process = "exited"]_allvars

\* C26: answering GET /api/dashboard changes neither the table nor the
\* connection set nor anything sent, and the data of the response equals,
\* apart from lastUpdated, the data of every 'initial' or 'update' message
\* computed from the same table: a message sent since the last write, and
\* the initial message of a connection accepted right after the poll.
SameData(a, b) == [a EXCEPT !.lastUpdated = 0] = [b EXCEPT !.lastUpdated = 0]
C26_PollEqualsPush ==
  [][/\ Called("GET /api/dashboard") /\ ~ret'.threw =>
          /\ UNCHANGED <<db, clients, conn, sent, cast>>
          /\ \A c \in ConnIds : \A i \in 1..Len(sent[c]) :
               sent[c][i].data.lastUpdated = ServerNow(Writes) =>
                 SameData(ret'.value, sent[c][i].data)
     /\ \A c \in ConnIds :
          AcceptStep(c) /\ ret.op = "GET /api/dashboard" /\ ~ret.threw =>
            SameData(sent'[c][1].data, ret.value)]_allvars

\* a poll answered after a tick's broadcast, with no write in between: the
\* response and the update a connection holds count the same rows
C26_Witness ==
  /\ ret.op = "GET /api/dashboard"
  /\ ~ret.threw
  /\ cast.ticks = 1
  /\ \E c \in ConnIds :
       /\ Len(sent[c]) = 2
       /\ sent[c][2].type = "update"
       /\ sent[c][2].data.lastUpdated = ServerNow(Writes)
       /\ sent[c][2].data.totalEvents = ret.value.totalEvents
       /\ sent[c][2].data.lineChartData = ret.value.lineChartData

\* ------------------------------------------------------ client, part 2
\* C23: when a fetch of a living poll loop (its mountedRef is set) settles,
\* the in-flight guard is released, loading is cleared and the interval is
\* left as it is; a failed fetch records the error and keeps the snapshot
\* held before, a successful one stores the polled snapshot and clears the
\* error; while polling is enabled the interval is still set and the next
\* tick issues a new fetch, however many fetches failed before.
SettleStep == poll'.inFlight = poll.inFlight - 1
C23_FailedFetchKeepsPolling ==
  [][SettleStep /\ poll.mountedRef =>
       /\ ~poll'.fetchingRef
       /\ ~poll'.loading
       /\ poll'.intervals = poll.intervals
       /\ poll'.intervalRef = poll.intervalRef
       /\ \/ poll'.error /\ poll'.data = poll.data
          \/ ~poll'.error /\ poll'.data = "poll"
       /\ Enabled(mode) =>
            /\ poll'.intervals >= 1
            /\ FetchData(poll', TRUE).inFlight = poll'.inFlight + 1]_vars

\* after a successful fetch a later fetch has failed: the error is recorded,
\* the polled snapshot is still held, and the next fetch is in flight
C23_Witness ==
  /\ phase = "mounted"
  /\ mode = "polling"
  /\ poll.error
  /\ poll.data = "poll"
  /\ poll.inFlight = 1
  /\ poll.intervals = 1

\* C27 (as claimed): the close event of a socket that is not the one wsRef
\* refers to leaves wsRef as it is.
C27_OldCloseKeepsHandle ==
  [][\A s \in SockIds :
       ws.sock[s] # "CLOSED" /\ ws'.sock[s] = "CLOSED" /\ ws.wsRef \notin {Null, s} =>
         ws'.wsRef = ws.wsRef]_vars

\* C28 (as claimed): while the Dashboard is mounted and polling is enabled,
\* also after the effects were cleaned up and run again, the interval is set
\* and a tick that finds no fetch in flight issues one.
C28_PollResumesAfterRemount ==
  phase = "mounted" /\ Enabled(mode) /\ poll.inFlight = 0 =>
    /\ poll.intervals >= 1
    /\ FetchData(poll, TRUE).inFlight = 1

\* C29 (as claimed): while the Dashboard is mounted the push manager has a
\* socket that is connecting or open (or one whose close event is still to
\* come), or a pending retry timer, or the error 'Max reconnection attempts
\* reached'.
C29_NeverDead ==
  phase = "mounted" =>
    \/ \E s \in SockIds : ws.sock[s] # "CLOSED"
    \/ ws.timers # {}
    \/ ws.error = ErrMax

\* C30: the snapshot the Dashboard renders is null or a snapshot of the
\* transport the mode names; a step of the push hook alone (a message, an
\* open, a close) in polling mode leaves it as it is, and so does a step of
\* the polling hook alone (a fetch settling) in push mode.
C30_SnapshotFromModeTransport ==
  [][/\ ActiveData(mode', ws', poll') \in {"null", IF mode' = "websocket" THEN "push" ELSE "poll"}
     /\ mode' = mode /\ mode = "polling" /\ poll' = poll =>
          ActiveData(mode', ws', poll') = ActiveData(mode, ws, poll)
     /\ mode' = mode /\ mode = "websocket" /\ ws' = ws =>
          ActiveData(mode', ws', poll') = ActiveData(mode, ws, poll)]_vars

\* in polling mode the push hook holds a pushed snapshot and an open socket,
\* the polling hook a polled one, and the Dashboard renders the polled one
C30_Witness ==
  /\ phase = "mounted"
  /\ mode = "polling"
  /\ ws.data = "push"
  /\ \E s \in SockIds : ws.sock[s] = "OPEN"
  /\ poll.data = "poll"
  /\ ActiveData(mode, ws, poll) = "poll"

====
